---- MODULE Spec2Model ----
(***************************************************************************)
(* Model of src/main.py (FinTrack Expense Analyzer): the four field        *)
(* cleaners clean_date, clean_amount, clean_category, clean_name and the   *)
(* POST /analyze handler analyze_expenses.                                 *)
(*                                                                         *)
(* Text is a sequence of one-character strings.  A missing cell (pandas    *)
(* NaN) is the one-element sequence NaN, Python's None is the one-element  *)
(* sequence None; neither can be confused with text, whose elements are    *)
(* single characters.  Numbers are exact decimals [m, x] = m * 10^x; the   *)
(* binary rounding of Python floats is not modelled.                       *)
(*                                                                         *)
(* Specifications: SpecDate, SpecAmount, SpecCategory apply one cleaner to *)
(* one input; Spec runs one request of the handler; SpecConcurrent runs    *)
(* NumRequests requests with their steps interleaved.                      *)
(***************************************************************************)
EXTENDS Integers, Sequences, FiniteSets, TLC

VARIABLES
    libcPadsYear,   \* does the platform's strftime pad %Y to four digits?
    dateIn, datePc, dateOut, dateFmt, dateOut2,     \* clean_date on one input
    amountIn, amountPc, amountOut, amountText,      \* clean_amount on one input
    categoryIn, categoryPc, categoryOut,            \* clean_category on one input
    uploads,        \* uploads[r]: the file request r uploads
    reqs            \* reqs[r]: the locals and the response of request r

dateVars == <<dateIn, datePc, dateOut, dateFmt, dateOut2>>

amountVars == <<amountIn, amountPc, amountOut, amountText>>

categoryVars == <<categoryIn, categoryPc, categoryOut>>

endpointVars == <<uploads, reqs>>

vars == <<libcPadsYear, dateVars, amountVars, categoryVars, endpointVars>>

(***************************************************************************)
(* Bounds of the model.                                                    *)
(***************************************************************************)
MaxPad == 1

MaxAmountLen == 4

MaxCategoryLen == 4

MaxRows == 3

NumRequests == 2

(***************************************************************************)
(* Values and characters.                                                  *)
(***************************************************************************)
NaN == <<"<NaN>">>

None == <<"<None>">>

Digits == {"0", "1", "2", "3", "4", "5", "6", "7", "8", "9"}

Digits19 == Digits \ {"0"}

Whitespace == {" ", "\t"}

DigitVal(c) ==
    CASE c = "0" -> 0 [] c = "1" -> 1 [] c = "2" -> 2 [] c = "3" -> 3
      [] c = "4" -> 4 [] c = "5" -> 5 [] c = "6" -> 6 [] c = "7" -> 7
      [] c = "8" -> 8 [] c = "9" -> 9

DigitChar(n) ==
    CASE n = 0 -> "0" [] n = 1 -> "1" [] n = 2 -> "2" [] n = 3 -> "3"
      [] n = 4 -> "4" [] n = 5 -> "5" [] n = 6 -> "6" [] n = 7 -> "7"
      [] n = 8 -> "8" [] n = 9 -> "9"

\* pd.isna(x) for a scalar cell: NaN and None are missing.
isna(x) == x = NaN \/ x = None

\* str.strip(): drop leading and trailing whitespace.
RECURSIVE lstrip(_)
lstrip(s) ==
    IF s # <<>> /\ Head(s) \in Whitespace THEN lstrip(Tail(s)) ELSE s

RECURSIVE rstrip(_)
rstrip(s) ==
    IF s # <<>> /\ s[Len(s)] \in Whitespace
    THEN rstrip(SubSeq(s, 1, Len(s) - 1))
    ELSE s

strip(s) == rstrip(lstrip(s))

\* int(text) of a field matched by a strptime directive (int() ignores the
\* blank that the %d directive may match before a single digit).
RECURSIVE IntOf(_)
IntOf(s) ==
    IF s = <<>> THEN 0
    ELSE IF s[Len(s)] \in Whitespace THEN IntOf(SubSeq(s, 1, Len(s) - 1))
    ELSE 10 * IntOf(SubSeq(s, 1, Len(s) - 1)) + DigitVal(s[Len(s)])

\* The decimal digits of n >= 0, most significant first ("0" for 0).
RECURSIVE DigitsOf(_)
DigitsOf(n) ==
    IF n < 10 THEN <<DigitChar(n)>>
    ELSE Append(DigitsOf(n \div 10), DigitChar(n % 10))

\* Zero-padding to a width, as %m, %d (and a padding %Y) print.
RECURSIVE ZeroPad(_, _)
ZeroPad(s, width) ==
    IF Len(s) >= width THEN s ELSE ZeroPad(<<"0">> \o s, width)

\* The pieces of s between the occurrences of the character sep.
RECURSIVE SplitOn(_, _)
SplitOn(s, sep) ==
    IF \A i \in 1..Len(s) : s[i] # sep THEN <<s>>
    ELSE LET i == CHOOSE j \in 1..Len(s) :
                      s[j] = sep /\ \A k \in 1..(j - 1) : s[k] # sep
         IN  <<SubSeq(s, 1, i - 1)>> \o SplitOn(SubSeq(s, i + 1, Len(s)), sep)

AllDigits(t) == \A i \in 1..Len(t) : t[i] \in Digits

(***************************************************************************)
(* datetime.strptime.  Each directive is a regular expression, an ordered  *)
(* list of alternatives, each alternative a sequence of character classes  *)
(* (CPython's _strptime.TimeRE); a literal of the format is a directive    *)
(* with one alternative.  The regular expression of the format is matched  *)
(* at the start of the text, alternatives tried in order with              *)
(* backtracking, and text left over after the match is an error.           *)
(***************************************************************************)
DirectiveY == <<  <<Digits, Digits, Digits, Digits>>  >>

DirectiveM == <<  <<{"1"}, {"0", "1", "2"}>>,  <<{"0"}, Digits19>>,  <<Digits19>>  >>

DirectiveD ==
    <<  <<{"3"}, {"0", "1"}>>,  <<{"1", "2"}, Digits>>,  <<{"0"}, Digits19>>,
        <<Digits19>>,  <<{" "}, Digits19>>  >>

Literal(c) == <<  <<{c}>>  >>

Elem(name, alts) == [name |-> name, alts |-> alts]

Format(f1, c1, f2, c2, f3) ==
    LET D(f) == CASE f = "Y" -> DirectiveY [] f = "m" -> DirectiveM [] f = "d" -> DirectiveD
    IN  << Elem(f1, D(f1)), Elem("lit", Literal(c1)), Elem(f2, D(f2)),
           Elem("lit", Literal(c2)), Elem(f3, D(f3)) >>

\* A variant of `formats` that tries each month-first pattern before its
\* day-first twin.
formats_month_first ==
    << Format("Y", "-", "m", "-", "d"),
       Format("m", "/", "d", "/", "Y"),
       Format("d", "/", "m", "/", "Y"),
       Format("m", "-", "d", "-", "Y"),
       Format("d", "-", "m", "-", "Y"),
       Format("Y", "/", "m", "/", "d") >>

\* The list `formats` of clean_date, in its order.
formats ==
    << Format("Y", "-", "m", "-", "d"),
       Format("d", "/", "m", "/", "Y"),
       Format("m", "/", "d", "/", "Y"),
       Format("d", "-", "m", "-", "Y"),
       Format("m", "-", "d", "-", "Y"),
       Format("Y", "/", "m", "/", "d") >>

\* Does the alternative (a sequence of character classes) match s at pos?
AltMatches(alt, s, pos) ==
    /\ pos + Len(alt) - 1 <= Len(s)
    /\ \A i \in 1..Len(alt) : s[pos + i - 1] \in alt[i]

NoMatch == [ok |-> FALSE, end |-> 0, Y |-> <<>>, m |-> <<>>, d |-> <<>>]

RECURSIVE RegexMatch(_, _, _, _, _)
RECURSIVE RegexAlt(_, _, _, _, _, _)
\* Match elements k.. of the format at pos; acc holds the groups so far.
RegexMatch(fmt, k, s, pos, acc) ==
    IF k > Len(fmt) THEN [acc EXCEPT !.ok = TRUE, !.end = pos - 1]
    ELSE RegexAlt(fmt, k, 1, s, pos, acc)

\* Try alternative a, a+1, ... of element k: the first one after which the
\* rest of the format matches wins.
RegexAlt(fmt, k, a, s, pos, acc) ==
    IF a > Len(fmt[k].alts) THEN NoMatch
    ELSE LET alt  == fmt[k].alts[a]
             text == SubSeq(s, pos, pos + Len(alt) - 1)
             acc2 == IF fmt[k].name = "lit" THEN acc
                     ELSE [acc EXCEPT ![fmt[k].name] = text]
             rest == IF AltMatches(alt, s, pos)
                     THEN RegexMatch(fmt, k + 1, s, pos + Len(alt), acc2)
                     ELSE NoMatch
         IN  IF rest.ok THEN rest ELSE RegexAlt(fmt, k, a + 1, s, pos, acc)

IsLeap(y) == (y % 4 = 0 /\ y % 100 # 0) \/ y % 400 = 0

DaysInMonth(y, m) ==
    IF m = 2 THEN (IF IsLeap(y) THEN 29 ELSE 28)
    ELSE IF m \in {4, 6, 9, 11} THEN 30 ELSE 31

\* The datetime constructor's range check (MINYEAR = 1).
ValidDate(y, m, d) ==
    /\ y >= 1 /\ y <= 9999
    /\ m >= 1 /\ m <= 12
    /\ d >= 1 /\ d <= DaysInMonth(y, m)

\* datetime.strptime(s, fmt): ok = FALSE stands for the ValueError.
strptime(s, fmt) ==
    LET found == RegexMatch(fmt, 1, s, 1, NoMatch)
        y == IntOf(found.Y)
        m == IntOf(found.m)
        d == IntOf(found.d)
    IN  IF ~found.ok THEN [ok |-> FALSE, y |-> 0, m |-> 0, d |-> 0]
        ELSE IF found.end # Len(s) THEN [ok |-> FALSE, y |-> 0, m |-> 0, d |-> 0]
        ELSE IF ~ValidDate(y, m, d) THEN [ok |-> FALSE, y |-> 0, m |-> 0, d |-> 0]
        ELSE [ok |-> TRUE, y |-> y, m |-> m, d |-> d]

\* A variant of strftime that prints "%Y-%d-%m".
strftime_day_before_month(dt, padsYear) ==
    (IF padsYear THEN ZeroPad(DigitsOf(dt.y), 4) ELSE DigitsOf(dt.y))
        \o <<"-">> \o ZeroPad(DigitsOf(dt.d), 2)
        \o <<"-">> \o ZeroPad(DigitsOf(dt.m), 2)

\* parsed_date.strftime("%Y-%m-%d").  %Y is printed by the C library: some
\* pad the year to four digits, glibc prints a year below 1000 unpadded.
strftime(dt, padsYear) ==
    (IF padsYear THEN ZeroPad(DigitsOf(dt.y), 4) ELSE DigitsOf(dt.y))
        \o <<"-">> \o ZeroPad(DigitsOf(dt.m), 2)
        \o <<"-">> \o ZeroPad(DigitsOf(dt.d), 2)

\* The for loop of clean_date from format k on: the first format that
\* parses returns; a ValueError is caught and the loop goes on; after the
\* loop the (stripped) text is returned.  fmt is the index of the format
\* that returned, 0 when none did.
RECURSIVE TryFormats(_, _, _, _)
TryFormats(fmts, k, s, padsYear) ==
    IF k > Len(fmts) THEN [value |-> s, fmt |-> 0, raised |-> FALSE]
    ELSE LET parsed_date == strptime(s, fmts[k])
         IN  IF parsed_date.ok
             THEN [value |-> strftime(parsed_date, padsYear), fmt |-> k, raised |-> FALSE]
             ELSE TryFormats(fmts, k + 1, s, padsYear)

\* clean_date (the result is .value; .fmt and .raised record how it ended).
clean_date(date_str) ==
    IF isna(date_str) \/ date_str = <<>>
    THEN [value |-> None, fmt |-> 0, raised |-> FALSE]
    ELSE TryFormats(formats, 1, strip(date_str), libcPadsYear)

(***************************************************************************)
(* clean_amount.  A number is the exact decimal [m, x] = m * 10^x, kept    *)
(* normal (m not a multiple of 10, zero is [0, 0]) so that equal numbers   *)
(* are equal records.                                                      *)
(***************************************************************************)
RECURSIVE Normal(_)
Normal(n) ==
    IF n.m = 0 THEN [m |-> 0, x |-> 0]
    ELSE IF n.m % 10 = 0 THEN Normal([m |-> n.m \div 10, x |-> n.x + 1])
    ELSE n

Zero == [m |-> 0, x |-> 0]

\* re.sub(r'\s+', '', s): every run of whitespace removed.
RemoveWhitespace(s) == SelectSeq(s, LAMBDA c : c \notin Whitespace)

Contains(s, c) == \E i \in 1..Len(s) : s[i] = c

\* s.replace(',', '.') and s.replace(',', '')
ReplaceCommaByPeriod(s) == [i \in 1..Len(s) |-> IF s[i] = "," THEN "." ELSE s[i]]

RemoveCommas(s) == SelectSeq(s, LAMBDA c : c # ",")

\* float(s) on text without whitespace: [sign] digits [. digits] [e [sign]
\* digits], with a digit on at least one side of the period.  ok = FALSE
\* stands for the ValueError.  (Digit-group underscores, "inf" and "nan"
\* are not in the alphabets of the model.)
float(s) ==
    LET signed   == s # <<>> /\ s[1] \in {"+", "-"}
        negative == signed /\ s[1] = "-"
        body     == IF signed THEN Tail(s) ELSE s
        bodyE    == [i \in 1..Len(body) |-> IF body[i] = "E" THEN "e" ELSE body[i]]
        parts    == SplitOn(bodyE, "e")
        mant     == SplitOn(parts[1], ".")
        int_     == mant[1]
        frac     == IF Len(mant) = 2 THEN mant[2] ELSE <<>>
        expo     == IF Len(parts) = 2 THEN parts[2] ELSE <<>>
        expoSig  == expo # <<>> /\ expo[1] \in {"+", "-"}
        expoDig  == IF expoSig THEN Tail(expo) ELSE expo
        wellFormed ==
            /\ Len(parts) \in {1, 2}
            /\ Len(mant) \in {1, 2}
            /\ AllDigits(int_) /\ AllDigits(frac)
            /\ Len(int_) + Len(frac) >= 1
            /\ Len(parts) = 2 => (expoDig # <<>> /\ AllDigits(expoDig))
        magnitude == IntOf(int_ \o frac)
        exponent  == (IF expoSig /\ expo[1] = "-" THEN 0 - IntOf(expoDig) ELSE IntOf(expoDig))
                        - Len(frac)
    IN  IF ~wellFormed THEN [ok |-> FALSE, value |-> Zero]
        ELSE [ok |-> TRUE,
              value |-> Normal([m |-> IF negative THEN 0 - magnitude ELSE magnitude,
                                x |-> exponent])]

\* A variant of the separator rule that takes every comma for a decimal
\* separator.
Disambiguate_comma_always_decimal(s) ==
    IF Contains(s, ",") THEN ReplaceCommaByPeriod(s) ELSE s

\* The separator rule of clean_amount on the whitespace-free text.
Disambiguate(s) ==
    IF Contains(s, ",") /\ ~Contains(s, ".") THEN ReplaceCommaByPeriod(s)
    ELSE IF Contains(s, ",") /\ Contains(s, ".") THEN RemoveCommas(s)
    ELSE s

\* A variant of clean_amount whose float() call is not guarded: the
\* ValueError of an unparsable amount leaves the function.
clean_amount_unguarded(amount_str) ==
    IF isna(amount_str) THEN [value |-> Zero, text |-> <<>>, raised |-> FALSE]
    ELSE LET text   == Disambiguate(RemoveWhitespace(strip(amount_str)))
             parsed == float(text)
         IN  [value |-> parsed.value, text |-> text, raised |-> ~parsed.ok]

\* clean_amount: .value is the result, .text the local amount_str handed
\* to float(), .raised whether an exception leaves the function.
clean_amount(amount_str) ==
    IF isna(amount_str) THEN [value |-> Zero, text |-> <<>>, raised |-> FALSE]
    ELSE LET text   == Disambiguate(RemoveWhitespace(strip(amount_str)))
             parsed == float(text)
         IN  IF parsed.ok
             THEN [value |-> parsed.value, text |-> text, raised |-> FALSE]
             ELSE [value |-> Zero, text |-> text, raised |-> FALSE]

(***************************************************************************)
(* clean_category and clean_name.                                          *)
(***************************************************************************)
UpperLetters ==
    << "A", "B", "C", "D", "E", "F", "G", "H", "I", "J", "K", "L", "M",
       "N", "O", "P", "Q", "R", "S", "T", "U", "V", "W", "X", "Y", "Z" >>

LowerLetters ==
    << "a", "b", "c", "d", "e", "f", "g", "h", "i", "j", "k", "l", "m",
       "n", "o", "p", "q", "r", "s", "t", "u", "v", "w", "x", "y", "z" >>

LowerChar(c) ==
    IF \E i \in 1..26 : UpperLetters[i] = c
    THEN LowerLetters[CHOOSE i \in 1..26 : UpperLetters[i] = c]
    ELSE c

UpperChar(c) ==
    IF \E i \in 1..26 : LowerLetters[i] = c
    THEN UpperLetters[CHOOSE i \in 1..26 : LowerLetters[i] = c]
    ELSE c

\* str.lower()
lower(s) == [i \in 1..Len(s) |-> LowerChar(s[i])]

\* str.capitalize(): first character upper case, the rest lower case.
capitalize(s) == [i \in 1..Len(s) |-> IF i = 1 THEN UpperChar(s[i]) ELSE LowerChar(s[i])]

Food == <<"F", "o", "o", "d">>

Travel == <<"T", "r", "a", "v", "e", "l">>

Health == <<"H", "e", "a", "l", "t", "h">>

Office == <<"O", "f", "f", "i", "c", "e">>

Other == <<"O", "t", "h", "e", "r">>

\* The dict category_mapping: its keys and the label of each key.
category_mapping ==
    { <<lower(Food), Food>>, <<lower(Travel), Travel>>, <<lower(Health), Health>>,
      <<lower(Office), Office>>, <<lower(Other), Other>> }

\* A variant of the lookup that accepts a text that starts with a key.
mapping_get_prefix(mapping, key, default) ==
    IF \E e \in mapping : Len(key) >= Len(e[1]) /\ SubSeq(key, 1, Len(e[1])) = e[1]
    THEN (CHOOSE e \in mapping : Len(key) >= Len(e[1]) /\ SubSeq(key, 1, Len(e[1])) = e[1])[2]
    ELSE default

\* category_mapping.get(key, default)
mapping_get(mapping, key, default) ==
    IF \E e \in mapping : e[1] = key
    THEN (CHOOSE e \in mapping : e[1] = key)[2]
    ELSE default

clean_category(category_str) ==
    IF isna(category_str) \/ category_str = <<>>
    THEN [value |-> Other, raised |-> FALSE]
    ELSE [value |-> mapping_get(category_mapping, lower(strip(category_str)), Other),
          raised |-> FALSE]

\* str.split(): the maximal runs of non-whitespace characters.
RECURSIVE split(_)
split(s) ==
    LET t == lstrip(s)
    IN  IF t = <<>> THEN <<>>
        ELSE LET n == IF \E i \in 1..Len(t) : t[i] \in Whitespace
                      THEN (CHOOSE i \in 1..Len(t) :
                                t[i] \in Whitespace /\ \A k \in 1..(i - 1) : t[k] \notin Whitespace) - 1
                      ELSE Len(t)
             IN  <<SubSeq(t, 1, n)>> \o split(SubSeq(t, n + 1, Len(t)))

\* ' '.join(words)
RECURSIVE join(_)
join(words) ==
    IF words = <<>> THEN <<>>
    ELSE IF Len(words) = 1 THEN words[1]
    ELSE words[1] \o <<" ">> \o join(Tail(words))

clean_name(name_str) ==
    IF isna(name_str) \/ name_str = <<>>
    THEN [value |-> <<>>, raised |-> FALSE]
    ELSE LET words == split(strip(name_str))
         IN  [value |-> join([i \in 1..Len(words) |-> capitalize(words[i])]),
              raised |-> FALSE]

(***************************************************************************)
(* analyze_expenses, the handler of POST /analyze.  An upload is a file    *)
(* name and a content; the content is its bytes seen as "is valid UTF-8"   *)
(* and the lines of text, each line its fields between the semicolons.     *)
(***************************************************************************)
Name == <<"N", "a", "m", "e">>

Date == <<"D", "a", "t", "e">>

Amount == <<"A", "m", "o", "u", "n", "t">>

Category == <<"C", "a", "t", "e", "g", "o", "r", "y">>

DotCsv == <<".", "c", "s", "v">>

\* A variant of endswith that ignores case.
endswith_ignoring_case(s, suffix) ==
    /\ Len(s) >= Len(suffix)
    /\ lower(SubSeq(s, Len(s) - Len(suffix) + 1, Len(s))) = lower(suffix)

\* str.endswith
endswith(s, suffix) ==
    /\ Len(s) >= Len(suffix)
    /\ SubSeq(s, Len(s) - Len(suffix) + 1, Len(s)) = suffix

NoContent == [utf8 |-> TRUE, lines |-> <<>>]

NoFrame == [columns |-> {}, rows |-> <<>>]

\* A cell of the data frame: a Python object (text, NaN, None) or a float.
Object(o) == [obj |-> o, num |-> Zero]

Float(v) == [obj |-> <<"<float>">>, num |-> v]

\* content.decode('utf-8'): raised stands for the UnicodeDecodeError.
decode(content) ==
    IF content.utf8 THEN [raised |-> FALSE, lines |-> content.lines]
    ELSE [raised |-> TRUE, lines |-> <<>>]

\* Field texts that pandas reads as a missing value (those of its default
\* list that the uploads of the model use).
na_values == { <<>>, <<"N", "A">>, <<"N", "a", "N">>, <<"n", "u", "l", "l">> }

\* pd.read_csv(io.StringIO(text), sep=';'): the first line names the
\* columns, every other line is a row; a field that is missing or a missing
\* value is NaN; text without a header line is an EmptyDataError.  (Every
\* line of the model's uploads has at most as many fields as the header;
\* pandas' inference of numeric column types is not modelled: the cleaners
\* see the text of the field.)
read_csv(lines) ==
    IF lines = <<>> THEN [raised |-> TRUE, df |-> NoFrame]
    ELSE LET header == lines[1]
             names  == { header[i] : i \in 1..Len(header) }
             cell(line, name) ==
                 LET i == CHOOSE j \in 1..Len(header) : header[j] = name
                 IN  IF i > Len(line) \/ line[i] \in na_values
                     THEN Object(NaN)
                     ELSE Object(line[i])
         IN  [raised |-> FALSE,
              df |-> [columns |-> names,
                      rows |-> [k \in 1..(Len(lines) - 1) |->
                                   [n \in names |-> cell(lines[k + 1], n)]]]]

\* The function each column is cleaned with (lines 113-116).
cleaner(col, cell) ==
    CASE col = Name -> clean_name(cell)
      [] col = Date -> clean_date(cell)
      [] col = Amount -> clean_amount(cell)
      [] col = Category -> clean_category(cell)

\* df[col] = df[col].apply(cleaner): raised stands for the KeyError of a
\* column the frame lacks, or for an exception of the cleaner.  The cleaned
\* Amount column holds floats, the other columns objects.
apply_column(df, col) ==
    IF col \notin df.columns THEN [raised |-> TRUE, df |-> df]
    ELSE IF \E k \in 1..Len(df.rows) : cleaner(col, df.rows[k][col].obj).raised
    THEN [raised |-> TRUE, df |-> df]
    ELSE [raised |-> FALSE,
          df |-> [df EXCEPT !.rows =
                    [k \in 1..Len(df.rows) |->
                        [df.rows[k] EXCEPT ![col] =
                            IF col = Amount THEN Float(cleaner(col, @.obj).value)
                            ELSE Object(cleaner(col, @.obj).value)]]]]

RECURSIVE Pow10(_)
Pow10(n) == IF n = 0 THEN 1 ELSE 10 * Pow10(n - 1)

\* The sum of two numbers.
Add(a, b) ==
    LET x == IF a.x < b.x THEN a.x ELSE b.x
    IN  Normal([m |-> a.m * Pow10(a.x - x) + b.m * Pow10(b.x - x), x |-> x])

\* A variant of the filter that keeps every row.
food_rows_unfiltered(df) == df.rows

\* df[df['Category'] == 'Food']
food_rows(df) == SelectSeq(df.rows, LAMBDA row : row[Category].obj = Food)

\* food_expenses['Amount'].sum() (0 for no rows)
RECURSIVE sum_amounts(_)
sum_amounts(rows) ==
    IF rows = <<>> THEN Zero
    ELSE Add(rows[1][Amount].num, sum_amounts(Tail(rows)))

\* f"${total:.2f}": the total rounded to hundredths (a tie to the even
\* hundredth; a float's binary error is not modelled), printed with a
\* leading "$", the sign, and two decimals.
format_answer(total) ==
    LET abs    == IF total.m < 0 THEN 0 - total.m ELSE total.m
        scale  == IF total.x < 0 - 2 THEN Pow10(0 - 2 - total.x) ELSE 1
        q      == abs \div scale
        r      == abs % scale
        cents  == IF total.x >= 0 - 2 THEN abs * Pow10(total.x + 2)
                  ELSE IF 2 * r > scale \/ (2 * r = scale /\ q % 2 = 1) THEN q + 1
                  ELSE q
    IN  <<"$">> \o (IF total.m < 0 THEN <<"-">> ELSE <<>>)
            \o DigitsOf(cents \div 100) \o <<".">> \o ZeroPad(DigitsOf(cents % 100), 2)

\* The locals of a request that has not started.
NewRequest ==
    [pc |-> "start", status |-> 0, answer |-> None, detail |-> "",
     content |-> NoContent, read |-> FALSE, df |-> NoFrame, total |-> Zero]

\* A variant of the except clause that answers with a default total.
processing_error_default_answer(st) ==
    [st EXCEPT !.pc = "done", !.status = 200, !.answer = format_answer(Zero)]

\* except Exception: raise HTTPException(status_code=500, ...)
processing_error(st) ==
    [st EXCEPT !.pc = "done", !.status = 500, !.detail = "Error processing file"]

\* Lines 104-105: the file name is checked before anything is read.
check_filename(st, upload) ==
    IF ~endswith(upload.filename, DotCsv)
    THEN [st EXCEPT !.pc = "done", !.status = 400, !.detail = "File must be a CSV"]
    ELSE [st EXCEPT !.pc = "read"]

\* Line 109: content = await file.read()
read_file(st, upload) ==
    [st EXCEPT !.pc = "parse", !.content = upload.content, !.read = TRUE]

\* Line 110: decode and parse.
parse(st) ==
    LET text == decode(st.content)
        got  == read_csv(text.lines)
    IN  IF text.raised \/ got.raised THEN processing_error(st)
        ELSE [st EXCEPT !.pc = "clean_Name", !.df = got.df]

\* Lines 113-116, one column each.
clean_column(st, col, next_pc) ==
    LET got == apply_column(st.df, col)
    IN  IF got.raised THEN processing_error(st)
        ELSE [st EXCEPT !.pc = next_pc, !.df = got.df]

\* Lines 118-131: filter, sum, format, respond.
aggregate(st) ==
    LET total_food_spending == sum_amounts(food_rows(st.df))
    IN  [st EXCEPT !.pc = "done", !.status = 200, !.total = total_food_spending,
                   !.answer = format_answer(total_food_spending)]

\* One step of the handler on its own locals.
step(st, upload) ==
    CASE st.pc = "start" -> check_filename(st, upload)
      [] st.pc = "read" -> read_file(st, upload)
      [] st.pc = "parse" -> parse(st)
      [] st.pc = "clean_Name" -> clean_column(st, Name, "clean_Date")
      [] st.pc = "clean_Date" -> clean_column(st, Date, "clean_Amount")
      [] st.pc = "clean_Amount" -> clean_column(st, Amount, "clean_Category")
      [] st.pc = "clean_Category" -> clean_column(st, Category, "aggregate")
      [] st.pc = "aggregate" -> aggregate(st)

\* The handler run from st to its end with nothing else running.
RECURSIVE run(_, _)
run(st, upload) == IF st.pc = "done" THEN st ELSE run(step(st, upload), upload)

analyze_expenses(upload) == run(NewRequest, upload)

(***************************************************************************)
(* SpecDate: clean_date applied to one input, then to its own result.      *)
(***************************************************************************)
Spaces(n) == [i \in 1..n |-> " "]

DayMonthTokens ==
    { <<"1">>, <<"0", "4">>, <<"0", "5">>, <<"1", "2">>, <<"1", "3">>, <<"2", "9">>,
      <<"3", "1">>, <<"0", "2">>, <<" ", "5">>, <<"0", "0">> }

YearTokens ==
    { <<"2", "0", "2", "3">>, <<"2", "0", "2", "4">>, <<"0", "9", "9", "9">>,
      <<"0", "0", "0", "0">> }

Separators == {"-", "/"}

OtherDateTexts ==
    { NaN, None, <<>>, <<" ">>, <<"n", "o", "t", "-", "a", "-", "d", "a", "t", "e">>,
      <<"2", "0", "2", "3", "0", "4", "2", "0">>,
      <<"2", "0", ".", "0", "4", ".", "2", "0", "2", "3">>,
      <<"2", "0", "/", "0", "4", "/", "2", "3">>,
      <<"3", "0", "/", "0", "4", "/", "2", "0", "2", "3">>,
      <<"\t", "2", "0", "2", "3", "/", "4", "/", "3", "0", "\t">>,
      <<"2", "0", "2", "3", "-", "0", "4", "-", "2", "0", "x">> }

DateInputs ==
    OtherDateTexts
    \cup { Spaces(l) \o a \o <<s1>> \o b \o <<s2>> \o c \o Spaces(r) :
              l \in 0..MaxPad, r \in 0..MaxPad, s1 \in Separators, s2 \in Separators,
              a \in DayMonthTokens, b \in DayMonthTokens, c \in YearTokens }
    \cup { Spaces(l) \o c \o <<s1>> \o a \o <<s2>> \o b \o Spaces(r) :
              l \in 0..MaxPad, r \in 0..MaxPad, s1 \in Separators, s2 \in Separators,
              a \in DayMonthTokens, b \in DayMonthTokens, c \in YearTokens }

DateIdle ==
    /\ dateIn = None
    /\ datePc = "idle"
    /\ dateOut = None
    /\ dateFmt = 0
    /\ dateOut2 = None

AmountIdle ==
    /\ amountIn = None
    /\ amountPc = "idle"
    /\ amountOut = Zero
    /\ amountText = <<>>

CategoryIdle ==
    /\ categoryIn = None
    /\ categoryPc = "idle"
    /\ categoryOut = None

EndpointIdle ==
    /\ uploads = <<>>
    /\ reqs = <<>>

InitDate ==
    /\ dateIn \in DateInputs
    /\ libcPadsYear \in BOOLEAN
    /\ datePc = "start"
    /\ dateOut = None
    /\ dateFmt = 0
    /\ dateOut2 = None
    /\ AmountIdle /\ CategoryIdle /\ EndpointIdle

\* dateOut = clean_date(dateIn)
CleanDate ==
    /\ datePc = "start"
    /\ dateOut' = clean_date(dateIn).value
    /\ dateFmt' = clean_date(dateIn).fmt
    /\ datePc' = "cleaned"
    /\ UNCHANGED <<dateIn, libcPadsYear, dateOut2, amountVars, categoryVars, endpointVars>>

\* dateOut2 = clean_date(dateOut)
CleanDateAgain ==
    /\ datePc = "cleaned"
    /\ dateOut2' = clean_date(dateOut).value
    /\ datePc' = "recleaned"
    /\ UNCHANGED <<dateIn, libcPadsYear, dateOut, dateFmt, amountVars, categoryVars, endpointVars>>

NextDate == CleanDate \/ CleanDateAgain

SpecDate == InitDate /\ [][NextDate]_vars

(***************************************************************************)
(* Properties of clean_date (checked under SpecDate).                      *)
(***************************************************************************)
\* The year as the platform's strftime prints it.
YearText(y) == IF libcPadsYear THEN ZeroPad(DigitsOf(y), 4) ELSE DigitsOf(y)

DateAbsent == isna(dateIn) \/ dateIn = <<>>

\* C5: the patterns are tried in their order and the first that parses
\* wins: an input a/b/YYYY or a-b-YYYY with a and b both in 1..12 comes out
\* as the date with day a and month b, by the day-first pattern; a
\* month-first pattern returns only when its day-first twin failed.
C5_DayFirstWins ==
    datePc # "start" =>
        /\ \A sep \in {"/", "-"} :
              LET p == SplitOn(strip(dateIn), sep)
              IN  ( /\ Len(p) = 3
                    /\ Len(p[1]) \in {1, 2} /\ AllDigits(p[1]) /\ IntOf(p[1]) \in 1..12
                    /\ Len(p[2]) \in {1, 2} /\ AllDigits(p[2]) /\ IntOf(p[2]) \in 1..12
                    /\ Len(p[3]) = 4 /\ AllDigits(p[3]) /\ IntOf(p[3]) >= 1 )
                  => /\ dateOut = YearText(IntOf(p[3]))
                                     \o <<"-">> \o ZeroPad(DigitsOf(IntOf(p[2])), 2)
                                     \o <<"-">> \o ZeroPad(DigitsOf(IntOf(p[1])), 2)
                     /\ dateFmt = (IF sep = "/" THEN 2 ELSE 4)
        /\ dateFmt = 3 => ~strptime(strip(dateIn), Format("d", "/", "m", "/", "Y")).ok
        /\ dateFmt = 5 => ~strptime(strip(dateIn), Format("d", "-", "m", "-", "Y")).ok
        /\ \A k \in 1..6 : dateFmt = k => strptime(strip(dateIn), formats[k]).ok

\* "04/05/2023" (both fields at most 12) was cleaned to day 4 of month 5.
C5_Witness ==
    /\ datePc = "cleaned"
    /\ strip(dateIn) = <<"0", "4", "/", "0", "5", "/", "2", "0", "2", "3">>
    /\ dateOut = <<"2", "0", "2", "3", "-", "0", "5", "-", "0", "4">>

\* The shape YYYY-MM-DD: four digits, two digits, two digits.
IsIsoDate(s) ==
    /\ Len(s) = 10
    /\ s[5] = "-" /\ s[8] = "-"
    /\ \A i \in {1, 2, 3, 4, 6, 7, 9, 10} : s[i] \in Digits

\* C6: clean_date returns null for an empty or absent input; for every
\* other input it returns a YYYY-MM-DD string when a pattern matched and the
\* trimmed input unchanged (not null) when none did.
C6_NullIsoOrUnchanged ==
    datePc # "start" =>
        /\ DateAbsent => dateOut = None
        /\ ~DateAbsent =>
              /\ dateOut # None
              /\ dateFmt # 0 => IsIsoDate(dateOut)
              /\ dateFmt = 0 => dateOut = strip(dateIn)

\* C10: clean_date applied to a result of clean_date that is neither null
\* nor empty gives that result again.
C10_Idempotent ==
    (datePc = "recleaned" /\ dateOut # None /\ dateOut # <<>>) => dateOut2 = dateOut

\* A date parsed by a pattern other than the first was cleaned twice.
C10_Witness ==
    /\ datePc = "recleaned"
    /\ dateFmt = 2
    /\ dateOut2 = dateOut
    /\ dateOut # strip(dateIn)

(***************************************************************************)
(* SpecAmount: clean_amount applied to one input.                          *)
(***************************************************************************)
\* All texts over an alphabet up to a length.
Texts(alphabet, maxLen) == UNION { [1..n -> alphabet] : n \in 0..maxLen }

AmountAlphabet == {"0", "1", "2", ",", ".", " ", "-", "+", "e", "a"}

OtherAmountTexts ==
    { NaN,
      <<"1", ",", "2", "3", "4", ".", "5", "6">>,
      <<"1", "2", ",", "5", "0">>,
      <<" ", "1", " ", "2", "3", "4", ",", "5", "6", "\t">>,
      <<"1", ".", "2", "3", "4", ",", "5", "6">>,
      <<"1", ",", "2", "3", "4", ",", "5", "6", "7">>,
      <<"a", "b", "c">>,
      <<"$", "5", ".", "0", "0">>,
      <<"-", "1", ",", "5", "E", "+", "2">> }

AmountInputs == Texts(AmountAlphabet, MaxAmountLen) \cup OtherAmountTexts

InitAmount ==
    /\ amountIn \in AmountInputs
    /\ libcPadsYear = FALSE         \* not read by clean_amount
    /\ amountPc = "start"
    /\ amountOut = Zero
    /\ amountText = <<>>
    /\ DateIdle /\ CategoryIdle /\ EndpointIdle

\* amountOut = clean_amount(amountIn)
CleanAmount ==
    /\ amountPc = "start"
    /\ amountOut' = clean_amount(amountIn).value
    /\ amountText' = clean_amount(amountIn).text
    /\ amountPc' = IF clean_amount(amountIn).raised THEN "raised" ELSE "cleaned"
    /\ UNCHANGED <<amountIn, libcPadsYear, dateVars, categoryVars, endpointVars>>

NextAmount == CleanAmount

SpecAmount == InitAmount /\ [][NextAmount]_vars

Count(s, c) == Cardinality({i \in 1..Len(s) : s[i] = c})

\* C7: with all whitespace removed, a text with commas and no period has
\* every comma replaced by a period, a text with both has every comma
\* removed, any other text is unchanged; the result is parsed as a number,
\* and the amount is 0.0 whenever that parse fails (an empty text, text that
\* is no number, more than one period).
C7_SeparatorsThenParse ==
    /\ (amountPc # "start" /\ isna(amountIn)) => (amountPc = "cleaned" /\ amountOut = Zero)
    /\ (amountPc # "start" /\ ~isna(amountIn)) =>
        LET t == SelectSeq(amountIn, LAMBDA c : c \notin {" ", "\t"})
        IN  /\ amountPc = "cleaned"
            /\ (Count(t, ",") > 0 /\ Count(t, ".") = 0) =>
                  /\ Len(amountText) = Len(t)
                  /\ \A i \in 1..Len(t) :
                        amountText[i] = (IF t[i] = "," THEN "." ELSE t[i])
            /\ (Count(t, ",") > 0 /\ Count(t, ".") > 0) =>
                  /\ Count(amountText, ",") = 0
                  /\ Len(amountText) = Len(t) - Count(t, ",")
                  /\ amountText = SelectSeq(t, LAMBDA c : c # ",")
            /\ Count(t, ",") = 0 => amountText = t
            /\ amountOut = (IF float(amountText).ok THEN float(amountText).value ELSE Zero)
            /\ amountText = <<>> => amountOut = Zero
            /\ Count(amountText, ".") > 1 => amountOut = Zero
            /\ Count(amountText, "a") > 0 => amountOut = Zero
            /\ (amountText # <<>> /\ AllDigits(amountText)) =>
                  amountOut = Normal([m |-> IntOf(amountText), x |-> 0])

\* "1,234.56" was cleaned to 1234.56 (= 123456 * 10^-2).
C7_Witness ==
    /\ amountPc = "cleaned"
    /\ amountIn = <<"1", ",", "2", "3", "4", ".", "5", "6">>
    /\ amountText = <<"1", "2", "3", "4", ".", "5", "6">>
    /\ amountOut = [m |-> 123456, x |-> 0 - 2]

(***************************************************************************)
(* SpecCategory: clean_category applied to one input.                      *)
(***************************************************************************)
CategoryAlphabet == {"f", "o", "d", "F", "O", " "}

CategoryWords ==
    { lower(Food), lower(Travel), lower(Health), lower(Office), lower(Other),
      <<"f", "o", "o", "d", "s">>, <<"s", "e", "a", "f", "o", "o", "d">>,
      <<"f", "o", " ", "o", "d">>, <<"g", "r", "o", "c", "e", "r", "i", "e", "s">> }

Upper(s) == [i \in 1..Len(s) |-> UpperChar(s[i])]

CategoryInputs ==
    {NaN}
    \cup Texts(CategoryAlphabet, MaxCategoryLen)
    \cup { Spaces(l) \o w \o Spaces(r) :
              l \in 0..MaxPad, r \in 0..MaxPad,
              w \in CategoryWords \cup { Upper(v) : v \in CategoryWords }
                                  \cup { capitalize(v) : v \in CategoryWords } }

InitCategory ==
    /\ categoryIn \in CategoryInputs
    /\ libcPadsYear = FALSE         \* not read by clean_category
    /\ categoryPc = "start"
    /\ categoryOut = None
    /\ DateIdle /\ AmountIdle /\ EndpointIdle

\* categoryOut = clean_category(categoryIn)
CleanCategory ==
    /\ categoryPc = "start"
    /\ categoryOut' = clean_category(categoryIn).value
    /\ categoryPc' = IF clean_category(categoryIn).raised THEN "raised" ELSE "cleaned"
    /\ UNCHANGED <<categoryIn, libcPadsYear, dateVars, amountVars, endpointVars>>

NextCategory == CleanCategory

SpecCategory == InitCategory /\ [][NextCategory]_vars

CategoryLabels == {Food, Travel, Health, Office, Other}

\* C8: clean_category returns one of Food, Travel, Health, Office, Other,
\* and a label other than Other only when the trimmed, lower-cased input is
\* exactly the key food, travel, health or office of that label; an empty
\* or absent input and every other text give Other.
C8_ClosedSetExactKeys ==
    categoryPc # "start" =>
        /\ categoryPc = "cleaned"
        /\ categoryOut \in CategoryLabels
        /\ categoryOut # Other =>
              /\ ~isna(categoryIn)
              /\ categoryIn # <<>>
              /\ lower(strip(categoryIn)) \in { lower(l) : l \in CategoryLabels \ {Other} }
              /\ lower(strip(categoryIn)) = lower(categoryOut)

\* " FOOD " was cleaned to Food.
C8_Witness ==
    /\ categoryPc = "cleaned"
    /\ categoryIn = <<" ", "F", "O", "O", "D", " ">>
    /\ categoryOut = Food

(***************************************************************************)
(* Spec: one request to POST /analyze, on any of the uploads below.        *)
(* SpecConcurrent: NumRequests requests, their steps interleaved.          *)
(***************************************************************************)
Row(n, d, a, c) ==
    [col \in {Name, Date, Amount, Category} |->
        CASE col = Name -> n [] col = Date -> d [] col = Amount -> a [] col = Category -> c]

JohnRow ==
    Row(<<"j", "o", "h", "n", " ", "D", "O", "E">>,
        <<"2", "0", "/", "0", "4", "/", "2", "0", "2", "3">>,
        <<"1", "2", ",", "5", "0">>,
        <<"f", "o", "o", "d">>)

JaneRow ==
    Row(<<"j", "a", "n", "e">>,
        <<"2", "0", "2", "3", "-", "0", "1", "-", "0", "1">>,
        <<"5", ".", "0", "0">>,
        <<"t", "r", "a", "v", "e", "l">>)

BobRow ==
    Row(<<"b", "o", "b">>,
        <<"0", "9", "9", "9", "/", "0", "2", "/", "2", "8">>,
        <<"a", "b", "c">>,
        <<"F", "o", "o", "d">>)

SampleRows ==
    { JohnRow,
      JaneRow,
      BobRow,
      Row(<<>>,
          <<"n", "o", "t", "-", "a", "-", "d", "a", "t", "e">>,
          <<"1", ",", "2", "3", "4", ".", "5", "6">>,
          <<" ", "F", "O", "O", "D", " ">>),
      Row(<<"N", "A">>,
          <<>>,
          <<"-", "3">>,
          <<"F", "o", "o", "d", "s">>),
      Row(<<" ", "a", "l", " ">>,
          <<"0", "4", "-", "0", "5", "-", "2", "0", "2", "3">>,
          <<>>,
          <<"F", "O", "O", "D">>) }

StandardHeader == <<Name, Date, Amount, Category>>

\* The line of a row under a header (a column the row does not know takes
\* the row's category).
Line(header, row) ==
    [i \in 1..Len(header) |->
        IF header[i] \in DOMAIN row THEN row[header[i]] ELSE row[Category]]

Csv(header, rows) ==
    [utf8 |-> TRUE,
     lines |-> <<header>> \o [k \in 1..Len(rows) |-> Line(header, rows[k])]]

DataCsv == <<"d", "a", "t", "a", ".", "c", "s", "v">>

DataTxt == <<"d", "a", "t", "a", ".", "t", "x", "t">>

WithoutColumn(col) == SelectSeq(StandardHeader, LAMBDA c : c # col)

\* Files with a .csv name, valid UTF-8 and the four columns.
GoodUploads ==
    { [filename |-> DataCsv, content |-> Csv(StandardHeader, rows)] :
        rows \in UNION { [1..n -> SampleRows] : n \in 0..MaxRows } }
    \cup { [filename |-> DataCsv, content |-> Csv(<<Category, Amount, Date, Name>>, rows)] :
             rows \in { <<>>, <<JaneRow, JohnRow>> } }

\* Files the handler refuses or fails on.
BadUploads ==
    { [filename |-> f, content |-> Csv(StandardHeader, <<JohnRow, JaneRow>>)] :
        f \in { DataTxt, Upper(DataCsv), <<"c", "s", "v">>, DataCsv \o <<".", "b", "a", "k">> } }
    \cup { [filename |-> DataCsv, content |-> [utf8 |-> FALSE, lines |-> <<>>]],
           [filename |-> DataCsv, content |-> [utf8 |-> TRUE, lines |-> <<>>]],
           [filename |-> DataCsv,
            content |-> Csv(<<Name, Date, Amount, lower(Category)>>, <<JohnRow>>)] }
    \cup { [filename |-> DataCsv, content |-> Csv(WithoutColumn(col), rows)] :
             col \in {Name, Date, Amount, Category},
             rows \in { <<>>, <<JohnRow, JaneRow>> } }

\* What concurrent requests upload.
FewUploads ==
    { [filename |-> DataTxt, content |-> Csv(StandardHeader, <<JohnRow, JaneRow>>)],
      [filename |-> DataCsv, content |-> [utf8 |-> FALSE, lines |-> <<>>]],
      [filename |-> DataCsv, content |-> Csv(WithoutColumn(Category), <<JohnRow>>)],
      [filename |-> DataCsv, content |-> Csv(StandardHeader, <<JohnRow, JaneRow>>)],
      [filename |-> DataCsv, content |-> Csv(<<Category, Amount, Date, Name>>, <<BobRow>>)] }

Init ==
    /\ libcPadsYear \in BOOLEAN
    /\ uploads \in { <<u>> : u \in GoodUploads \cup BadUploads }
    /\ reqs = <<NewRequest>>
    /\ DateIdle /\ AmountIdle /\ CategoryIdle

InitConcurrent ==
    /\ libcPadsYear \in BOOLEAN
    /\ uploads \in [1..NumRequests -> FewUploads]
    /\ reqs = [r \in 1..NumRequests |-> NewRequest]
    /\ DateIdle /\ AmountIdle /\ CategoryIdle

\* A variant in which the frame to aggregate is a module-level one, kept by
\* the first request that finished.
shared_df(r) ==
    IF \E q \in DOMAIN reqs : reqs[q].pc = "done" /\ reqs[q].status = 200
    THEN reqs[CHOOSE q \in DOMAIN reqs : reqs[q].pc = "done" /\ reqs[q].status = 200].df
    ELSE reqs[r].df

\* The local variable df of request r.
local_df(r) == reqs[r].df

Others == <<libcPadsYear, uploads, dateVars, amountVars, categoryVars>>

CheckFilename(r) ==
    /\ r \in DOMAIN reqs
    /\ reqs[r].pc = "start"
    /\ reqs' = [reqs EXCEPT ![r] = check_filename(@, uploads[r])]
    /\ UNCHANGED Others

ReadFile(r) ==
    /\ r \in DOMAIN reqs
    /\ reqs[r].pc = "read"
    /\ reqs' = [reqs EXCEPT ![r] = read_file(@, uploads[r])]
    /\ UNCHANGED Others

Parse(r) ==
    /\ r \in DOMAIN reqs
    /\ reqs[r].pc = "parse"
    /\ reqs' = [reqs EXCEPT ![r] = parse(@)]
    /\ UNCHANGED Others

CleanNameColumn(r) ==
    /\ r \in DOMAIN reqs
    /\ reqs[r].pc = "clean_Name"
    /\ reqs' = [reqs EXCEPT ![r] = clean_column(@, Name, "clean_Date")]
    /\ UNCHANGED Others

CleanDateColumn(r) ==
    /\ r \in DOMAIN reqs
    /\ reqs[r].pc = "clean_Date"
    /\ reqs' = [reqs EXCEPT ![r] = clean_column(@, Date, "clean_Amount")]
    /\ UNCHANGED Others

CleanAmountColumn(r) ==
    /\ r \in DOMAIN reqs
    /\ reqs[r].pc = "clean_Amount"
    /\ reqs' = [reqs EXCEPT ![r] = clean_column(@, Amount, "clean_Category")]
    /\ UNCHANGED Others

CleanCategoryColumn(r) ==
    /\ r \in DOMAIN reqs
    /\ reqs[r].pc = "clean_Category"
    /\ reqs' = [reqs EXCEPT ![r] = clean_column(@, Category, "aggregate")]
    /\ UNCHANGED Others

Aggregate(r) ==
    /\ r \in DOMAIN reqs
    /\ reqs[r].pc = "aggregate"
    /\ reqs' = [reqs EXCEPT ![r] = aggregate([@ EXCEPT !.df = local_df(r)])]
    /\ UNCHANGED Others

\* Any request that exists takes its next step.
Next ==
    \E r \in 1..NumRequests :
        \/ CheckFilename(r)
        \/ ReadFile(r)
        \/ Parse(r)
        \/ CleanNameColumn(r)
        \/ CleanDateColumn(r)
        \/ CleanAmountColumn(r)
        \/ CleanCategoryColumn(r)
        \/ Aggregate(r)

Spec == Init /\ [][Next]_vars

SpecConcurrent == InitConcurrent /\ [][Next]_vars

(***************************************************************************)
(* Properties of analyze_expenses (checked under Spec), stated on the      *)
(* uploaded file.                                                          *)
(***************************************************************************)
NameEndsInDotCsv(f) ==
    LET n == Len(f)
    IN  n >= 4 /\ f[n - 3] = "." /\ f[n - 2] = "c" /\ f[n - 1] = "s" /\ f[n] = "v"

HeaderHas(u, col) ==
    /\ u.content.lines # <<>>
    /\ \E i \in 1..Len(u.content.lines[1]) : u.content.lines[1][i] = col

HasAllColumns(u) == \A col \in {Name, Date, Amount, Category} : HeaderHas(u, col)

\* A .csv-named, decodable file with the four columns.
WellFormed(u) == NameEndsInDotCsv(u.filename) /\ u.content.utf8 /\ HasAllColumns(u)

\* The text of column col in data line k of the file.
FieldText(u, k, col) ==
    LET header == u.content.lines[1]
        i == CHOOSE j \in 1..Len(header) : header[j] = col
    IN  u.content.lines[k + 1][i]

DataLines(u) == Len(u.content.lines) - 1

\* The total of the Food lines among the first k data lines.
RECURSIVE FoodTotal(_, _)
FoodTotal(u, k) ==
    IF k = 0 THEN Zero
    ELSE IF lower(strip(FieldText(u, k, Category))) = <<"f", "o", "o", "d">>
    THEN Add(FoodTotal(u, k - 1), clean_amount(FieldText(u, k, Amount)).value)
    ELSE FoodTotal(u, k - 1)

ZeroDollars == <<"$", "0", ".", "0", "0">>

\* C1 (checked under Spec): for a .csv-named file with the four columns the answer is "$" and the
\* sum, to two decimals, of the cleaned amounts of exactly the rows whose
\* cleaned category is Food; a header without data rows gives "$0.00", and
\* the two rows john doe/12,50/food and jane/5.00/travel give "$12.50".
C1_AnswerIsFoodTotal ==
    \A r \in DOMAIN reqs :
        (reqs[r].pc = "done" /\ WellFormed(uploads[r])) =>
            /\ reqs[r].status = 200
            /\ reqs[r].answer = format_answer(FoodTotal(uploads[r], DataLines(uploads[r])))
            /\ DataLines(uploads[r]) = 0 => reqs[r].answer = ZeroDollars
            /\ uploads[r].content = Csv(StandardHeader, <<JohnRow, JaneRow>>) =>
                  reqs[r].answer = <<"$", "1", "2", ".", "5", "0">>

\* A file with a Food row and a row of another category was answered.
C1_Witness ==
    /\ reqs # <<>>
    /\ reqs[1].pc = "done"
    /\ uploads[1].content = Csv(<<Category, Amount, Date, Name>>, <<JaneRow, JohnRow>>)
    /\ reqs[1].answer = <<"$", "1", "2", ".", "5", "0">>

\* C2: a file whose name does not end in ".csv" is answered with status 400
\* and nothing of it is read, decoded, parsed or cleaned, and no answer is
\* produced.
C2_RejectedBeforeReading ==
    \A r \in DOMAIN reqs :
        ~NameEndsInDotCsv(uploads[r].filename) =>
            /\ reqs[r].pc \in {"start", "done"}
            /\ reqs[r].pc = "done" => reqs[r].status = 400
            /\ ~reqs[r].read
            /\ reqs[r].content = NoContent
            /\ reqs[r].df = NoFrame
            /\ reqs[r].answer = None

\* data.txt was refused.
C2_Witness ==
    /\ reqs # <<>>
    /\ uploads[1].filename = DataTxt
    /\ reqs[1].pc = "done"
    /\ reqs[1].status = 400

\* C3: a .csv-named file that is not UTF-8 or lacks one of the four columns
\* is answered with status 500 and no answer, whichever step failed and
\* however many columns had been cleaned.
C3_FailsWithoutPartialResult ==
    \A r \in DOMAIN reqs :
        ( /\ reqs[r].pc = "done"
          /\ NameEndsInDotCsv(uploads[r].filename)
          /\ (~uploads[r].content.utf8 \/ ~HasAllColumns(uploads[r])) )
        => /\ reqs[r].status = 500
           /\ reqs[r].answer = None
           /\ reqs[r].detail = "Error processing file"

\* A file without the Category column failed after its Name column had
\* been cleaned.
C3_Witness ==
    /\ reqs # <<>>
    /\ reqs[1].pc = "done"
    /\ reqs[1].status = 500
    /\ uploads[1].content = Csv(WithoutColumn(Category), <<JohnRow, JaneRow>>)
    /\ reqs[1].df.rows[1][Name].obj = <<"J", "o", "h", "n", " ", "D", "o", "e">>

\* C4: no cleaner raises on the cells of the column it is about to clean
\* (nor on an absent, empty or blank cell), and a .csv-named file
\* with the four columns never ends in the 500 response, whatever its
\* cells hold: it ends with an answer.
C4_NoCellFailsTheRequest ==
    \A r \in DOMAIN reqs :
        /\ \A col \in {Name, Date, Amount, Category} :
              (reqs[r].pc = <<"clean_Name", "clean_Date", "clean_Amount", "clean_Category">>
                               [CHOOSE i \in 1..4 : StandardHeader[i] = col]
                  /\ col \in reqs[r].df.columns)
              => \A k \in 1..Len(reqs[r].df.rows) :
                    /\ ~cleaner(col, reqs[r].df.rows[k][col].obj).raised
                    /\ ~cleaner(col, NaN).raised
                    /\ ~cleaner(col, <<>>).raised
                    /\ ~cleaner(col, <<" ">>).raised
        /\ WellFormed(uploads[r]) =>
              /\ reqs[r].status # 500
              /\ reqs[r].pc = "done" => (reqs[r].status = 200 /\ reqs[r].answer # None)

\* A file whose row has an unparsable amount and date was answered.
C4_Witness ==
    /\ reqs # <<>>
    /\ reqs[1].pc = "done"
    /\ reqs[1].status = 200
    /\ DataLines(uploads[1]) >= 1
    /\ FieldText(uploads[1], 1, Amount) = <<"a", "b", "c">>

Response(st) == <<st.status, st.answer, st.detail>>

\* C9: with the steps of the requests interleaved in any order, the response
\* of each request is the one the handler gives when it runs alone on that
\* request's file, and a step of one request changes nothing of another.
C9_RequestsIndependent ==
    /\ [](\A r \in DOMAIN reqs :
             reqs[r].pc = "done" => Response(reqs[r]) = Response(analyze_expenses(uploads[r])))
    /\ [][ /\ uploads' = uploads
           /\ \A r \in DOMAIN reqs :
                 reqs'[r] # reqs[r] => \A q \in DOMAIN reqs \ {r} : reqs'[q] = reqs[q] ]_vars

\* Two requests with different files ran interleaved and were answered,
\* both with a total.
C9_Witness ==
    /\ Len(reqs) >= 2
    /\ \A r \in DOMAIN reqs : reqs[r].pc = "done"
    /\ reqs[1].status = 200 /\ reqs[2].status = 200
    /\ reqs[1].answer # reqs[2].answer

====
